---- MODULE Spec2Model ----
(***************************************************************************)
(* Red social academica: the in-memory graph of persons and collaborations *)
(* of red_social_academica.py, its handlers and its analytical functions.  *)
(*                                                                         *)
(* Names are modelled by their rank in the lexicographic order of Python   *)
(* strings: the name of rank 1 is the smallest. The empty string, which    *)
(* is smaller than every name, is 0. Interests are numbered likewise, and  *)
(* 0 is an empty piece of the comma-separated interests text.              *)
(***************************************************************************)
EXTENDS Integers, Sequences, FiniteSets, TLC

\* Bounds of the model.
MaxNames == 3
MaxCollabs == 2

\* show_interdisciplinary_recommendations asks for the 8 best pairs.
TopShown == 8

Names == 1..MaxNames
NameInputs == 0..MaxNames

\* What the user types in the node form: a carrera and a comma-separated
\* interests text (its pieces; 0 is an empty piece).
NodeForms ==
  { <<"Ing.", <<1>>>>, <<"Int.", <<2, 0, 1>>>>, <<"Int.", <<0>>>>, <<"", <<1>>>> }

\* What the user types in the entry of the recommendations window.
ConnTexts == UNION {[1..k -> NameInputs] : k \in 0..2} \cup {<<1, 1, 1>>}

VARIABLES
  nodes,           \* dict name -> {carrera, intereses}, in insertion order
  collaborations,  \* list of pairs
  removed_nodes,   \* set of names
  shown,           \* what the last handler showed: a messagebox or a text
  script           \* the scripted calls in progress, if any (see Scripts)

\* visualization_mode and suggested_connections are read by draw_graph alone
\* and are left out, as are the widgets that draw_graph and the refresh
\* functions fill. The Toplevel windows are not modal and any number of each
\* kind can be open (the example data has recommendations to show from the
\* start), so the buttons of every window are taken to be at hand.

store == <<nodes, collaborations, removed_nodes>>
program == <<nodes, collaborations, removed_nodes, shown>>
vars == <<nodes, collaborations, removed_nodes, shown, script>>

----------------------------------------------------------------------------
\* Python containers

Range(s) == {s[i] : i \in DOMAIN s}

Keys(d) == {d[i].nombre : i \in DOMAIN d}

KeyList(d) == [i \in DOMAIN d |-> d[i].nombre]

Get(d, k) == LET i == CHOOSE j \in DOMAIN d : d[j].nombre = k IN d[i]

DictSet_append(d, k, carrera, intereses) ==
  Append(d, [nombre |-> k, carrera |-> carrera, intereses |-> intereses])

\* d[k] = value: an existing key keeps its place, a new key goes last.
DictSet(d, k, carrera, intereses) ==
  LET rec == [nombre |-> k, carrera |-> carrera, intereses |-> intereses]
  IN IF k \in Keys(d)
       THEN [i \in DOMAIN d |-> IF d[i].nombre = k THEN rec ELSE d[i]]
       ELSE Append(d, rec)

\* list.remove(x): removes the first occurrence.
ListRemove(l, x) ==
  LET i == CHOOSE j \in DOMAIN l : l[j] = x /\ \A k \in 1..(j-1) : l[k] # x
  IN [j \in 1..(Len(l)-1) |-> IF j < i THEN l[j] ELSE l[j+1]]

ListCount(l, x) == Cardinality({i \in DOMAIN l : l[i] = x})

Max2(a, b) == IF a >= b THEN a ELSE b

----------------------------------------------------------------------------
\* Utilities

normalize_pair_unordered(a, b) == <<a, b>>

normalize_pair(a, b) == IF a <= b THEN <<a, b>> ELSE <<b, a>>

parse_interests(t) == {t[i] : i \in DOMAIN t} \ {0}

----------------------------------------------------------------------------
\* Scores are floats in the source; here they are exact fractions n/d, d > 0.

Frac(n, d) == [n |-> n, d |-> d]

FracAdd(a, b) == Frac(a.n * b.d + b.n * a.d, a.d * b.d)

FracLess(a, b) == a.n * b.d < b.n * a.d

FracEq(a, b) == a.n * b.d = b.n * a.d

FracPos(a) == a.n > 0

----------------------------------------------------------------------------
\* 1. Interdisciplinary recommendation

calculate_interdisciplinary_score(n1, n2) ==
  IF n1 \notin Keys(nodes) \/ n2 \notin Keys(nodes)
    THEN Frac(0, 1)
    ELSE LET info1 == Get(nodes, n1)
             info2 == Get(nodes, n2)
             bonus == IF info1.carrera # info2.carrera THEN Frac(3, 1) ELSE Frac(0, 1)
             int1 == info1.intereses
             int2 == info2.intereses
             intersection == Cardinality(int1 \cap int2)
             union == Cardinality(int1 \cup int2)
         IN IF (int1 # {} \/ int2 # {}) /\ union > 0
              THEN FracAdd(bonus, Frac(2 * intersection, union))
              ELSE bonus

\* The index pairs (i, j), i < j <= n, in the order of the two nested loops.
RECURSIVE IndexPairs(_, _, _)
IndexPairs(i, j, n) ==
  IF i > n THEN <<>>
  ELSE IF j > n THEN IndexPairs(i + 1, i + 2, n)
  ELSE <<<<i, j>>>> \o IndexPairs(i, j + 1, n)

InsertDesc_unstable(sorted, x) ==
  LET before == {k \in DOMAIN sorted : ~FracLess(x.score, sorted[k].score)}
      at == IF before = {} THEN Len(sorted) + 1
            ELSE CHOOSE k \in before : \A m \in before : k <= m
  IN SubSeq(sorted, 1, at - 1) \o <<x>> \o SubSeq(sorted, at, Len(sorted))

\* list.sort(key=score, reverse=True): stable, so equal scores keep their order.
InsertDesc(sorted, x) ==
  LET before == {k \in DOMAIN sorted : FracLess(sorted[k].score, x.score)}
      at == IF before = {} THEN Len(sorted) + 1
            ELSE CHOOSE k \in before : \A m \in before : k <= m
  IN SubSeq(sorted, 1, at - 1) \o <<x>> \o SubSeq(sorted, at, Len(sorted))

RECURSIVE SortDesc(_)
SortDesc(l) ==
  IF l = <<>> THEN <<>>
  ELSE InsertDesc(SortDesc(SubSeq(l, 1, Len(l) - 1)), l[Len(l)])

\* l[:top_n] for top_n >= 0
Top(l, top_n) == SubSeq(l, 1, IF top_n < Len(l) THEN top_n ELSE Len(l))

RECURSIVE SelectSeq2(_, _)
SelectSeq2(l, keep) ==
  IF l = <<>> THEN <<>>
  ELSE (IF l[1] \in keep THEN <<l[1]>> ELSE <<>>) \o SelectSeq2(Tail(l), keep)

InterdisciplinaryNodeList == KeyList(nodes)

recommend_interdisciplinary_connections(top_n) ==
  LET node_list == InterdisciplinaryNodeList
      idx == IndexPairs(1, 2, Len(node_list))
      cand == [k \in DOMAIN idx |->
                 [n1 |-> node_list[idx[k][1]], n2 |-> node_list[idx[k][2]],
                  score |-> calculate_interdisciplinary_score(
                              node_list[idx[k][1]], node_list[idx[k][2]])]]
      keep == {c \in Range(cand) :
                 /\ normalize_pair(c.n1, c.n2) \notin Range(collaborations)
                 /\ FracPos(c.score)}
  IN Top(SortDesc(SelectSeq2(cand, keep)), top_n)

----------------------------------------------------------------------------
\* 2. Resilience: networkx graphs and the network metrics

\* nx.Graph(): a set of nodes and a set of undirected edges; the edge of a
\* and b is {a, b}, a self-loop is {a}. add_edge also adds its endpoints.
BuildGraph(nd, cl, rm) ==
  LET es == {{cl[i][1], cl[i][2]} : i \in {j \in DOMAIN cl :
                                      cl[j][1] \notin rm /\ cl[j][2] \notin rm}}
  IN [nodes |-> {n \in Keys(nd) : n \notin rm} \cup UNION es, edges |-> es]

Neighbors(G, v) == {u \in G.nodes : {u, v} \in G.edges}

RECURSIVE Bfs(_, _, _)
Bfs(G, seen, frontier) ==
  IF frontier = {} THEN seen
  ELSE LET next == (UNION {Neighbors(G, v) : v \in frontier}) \ seen
       IN Bfs(G, seen \cup next, next)

number_connected_components_by_node(G, unvisited) == Cardinality(unvisited)

RECURSIVE number_connected_components(_, _)
number_connected_components(G, unvisited) ==
  IF unvisited = {} THEN 0
  ELSE LET v == CHOOSE u \in unvisited : TRUE
       IN 1 + number_connected_components(G, unvisited \ Bfs(G, {v}, {v}))

calculate_network_metrics(G) ==
  IF Cardinality(G.nodes) = 0
    THEN [nodos |-> 0, aristas |-> 0, componentes |-> 0]
    ELSE [nodos |-> Cardinality(G.nodes),
          aristas |-> Cardinality(G.edges),
          componentes |-> number_connected_components(G, G.nodes)]

----------------------------------------------------------------------------
\* 3. Gap detection: centrality and suggestions

FracMul(a, b) == Frac(a.n * b.n, a.d * b.d)

FracMax(a, b) == IF FracLess(a, b) THEN b ELSE a

\* G.degree(v): an edge to another node counts once, a self-loop twice.
Degree(G, v) ==
  Cardinality({e \in G.edges : v \in e /\ e # {v}})
    + (IF {v} \in G.edges THEN 2 ELSE 0)

\* nx.degree_centrality(G)[v]: 1 on a graph of at most one node, otherwise
\* the degree over len(G) - 1.
degree_centrality(G, v) ==
  IF Cardinality(G.nodes) <= 1
    THEN Frac(1, 1)
    ELSE Frac(Degree(G, v), Cardinality(G.nodes) - 1)

\* Length of a shortest path from the frontier's source to t, -1 if none.
RECURSIVE Distance(_, _, _, _, _)
Distance(G, seen, frontier, t, d) ==
  IF t \in frontier THEN d
  ELSE IF frontier = {} THEN 0 - 1
  ELSE LET next == (UNION {Neighbors(G, v) : v \in frontier}) \ seen
       IN Distance(G, seen \cup next, next, t, d + 1)

Dist(G, s, t) == Distance(G, {s}, {s}, t, 0)

\* Number of shortest paths from s to t (sigma of Brandes' algorithm): the
\* paths to the predecessors of t, summed. A self-loop is on no shortest path.
RECURSIVE ShortestPaths(_, _, _)
RECURSIVE SumShortestPaths(_, _, _)
SumShortestPaths(G, s, preds) ==
  IF preds = {} THEN 0
  ELSE LET u == CHOOSE x \in preds : TRUE
       IN ShortestPaths(G, s, u) + SumShortestPaths(G, s, preds \ {u})

ShortestPaths(G, s, t) ==
  IF s = t THEN 1
  ELSE LET d == Dist(G, s, t)
       IN IF d < 0 THEN 0
          ELSE SumShortestPaths(G, s,
                 {u \in Neighbors(G, t) \ {t} : Dist(G, s, u) = d - 1})

\* The share of the shortest paths from s to t that pass through v.
PairDependency(G, s, t, v) ==
  IF /\ Dist(G, s, t) > 0
     /\ Dist(G, s, v) > 0
     /\ Dist(G, v, t) > 0
     /\ Dist(G, s, v) + Dist(G, v, t) = Dist(G, s, t)
    THEN Frac(ShortestPaths(G, s, v) * ShortestPaths(G, v, t), ShortestPaths(G, s, t))
    ELSE Frac(0, 1)

RECURSIVE SumDependencies(_, _, _)
SumDependencies(G, v, pairs) ==
  IF pairs = {} THEN Frac(0, 1)
  ELSE LET p == CHOOSE x \in pairs : TRUE
       IN FracAdd(PairDependency(G, p[1], p[2], v),
                  SumDependencies(G, v, pairs \ {p}))

\* nx.betweenness_centrality(G)[v], normalized: the dependencies of every
\* source s on v, accumulated over every target t, scaled by
\* 1 / ((n - 1)(n - 2)) when n > 2 and not scaled otherwise.
betweenness_centrality(G, v) ==
  LET n == Cardinality(G.nodes)
      others == G.nodes \ {v}
      total == SumDependencies(G, v, {p \in others \X others : p[1] # p[2]})
  IN IF n > 2 THEN FracMul(total, Frac(1, (n - 1) * (n - 2))) ELSE total

CentralityGraph == BuildGraph(nodes, collaborations, removed_nodes)

calculate_centrality_metrics_always ==
  LET G == CentralityGraph
  IN [node \in G.nodes |->
        [grado |-> degree_centrality(G, node),
         intermediacion |-> betweenness_centrality(G, node),
         score_total |-> FracAdd(FracMul(degree_centrality(G, node), Frac(1, 2)),
                                 FracMul(betweenness_centrality(G, node), Frac(1, 2)))]]

\* The dict of calculate_centrality_metrics as a function on its keys; the
\* empty dict is the function of empty domain.
calculate_centrality_metrics ==
  LET G == CentralityGraph
  IN IF Cardinality(G.nodes) = 0 \/ Cardinality(G.edges) = 0
       THEN <<>>
       ELSE [node \in G.nodes |->
               [grado |-> degree_centrality(G, node),
                intermediacion |-> betweenness_centrality(G, node),
                score_total |-> FracAdd(FracMul(degree_centrality(G, node), Frac(1, 2)),
                                        FracMul(betweenness_centrality(G, node), Frac(1, 2)))]]

\* centrality.get(n, {}).get("score_total", 0)
CentralityScore(centrality, n) ==
  IF n \in DOMAIN centrality THEN centrality[n].score_total ELSE Frac(0, 1)

GapNodeList_all == KeyList(nodes)

\* node_list = [n for n in nodes.keys() if n not in removed_nodes]
GapNodeList == SelectSeq2(KeyList(nodes), Keys(nodes) \ removed_nodes)

\* total_score of a pair with common interests
GapScore(centrality, n1, n2) ==
  LET int1 == Get(nodes, n1).intereses
      int2 == Get(nodes, n2).intereses
      common == int1 \cap int2
      similarity == Frac(Cardinality(common),
                         Max2(Cardinality(int1), Cardinality(int2)))
      cent_bonus == IF DOMAIN centrality # {}
                      THEN FracMul(FracMax(CentralityScore(centrality, n1),
                                           CentralityScore(centrality, n2)),
                                   Frac(1, 2))
                      ELSE Frac(0, 1)
  IN FracAdd(similarity, cent_bonus)

suggest_gap_filling_connections(top_n) ==
  LET node_list == GapNodeList
      centrality == calculate_centrality_metrics
      idx == IndexPairs(1, 2, Len(node_list))
      pairs == [k \in DOMAIN idx |->
                  [n1 |-> node_list[idx[k][1]], n2 |-> node_list[idx[k][2]]]]
      keep == {c \in Range(pairs) :
                 /\ normalize_pair(c.n1, c.n2) \notin Range(collaborations)
                 /\ Get(nodes, c.n1).intereses \cap Get(nodes, c.n2).intereses # {}}
      kept == SelectSeq2(pairs, keep)
      suggestions == [k \in DOMAIN kept |->
                        [n1 |-> kept[k].n1, n2 |-> kept[k].n2,
                         score |-> GapScore(centrality, kept[k].n1, kept[k].n2),
                         reason |-> Get(nodes, kept[k].n1).intereses
                                      \cap Get(nodes, kept[k].n2).intereses]]
  IN Top(SortDesc(suggestions), top_n)

----------------------------------------------------------------------------
\* What a handler shows

NoMetrics == [nodos |-> 0, aristas |-> 0, componentes |-> 0]

\* messagebox.showwarning / showinfo: the title
Box(title) ==
  [widget |-> "messagebox", what |-> title, node |-> 0,
   before |-> NoMetrics, after |-> NoMetrics, comp_change |-> 0, edge_change |-> 0]

\* text.insert in the resilience window
Text(what, node) ==
  [widget |-> "text", what |-> what, node |-> node,
   before |-> NoMetrics, after |-> NoMetrics, comp_change |-> 0, edge_change |-> 0]

Report(node, before, after) ==
  [widget |-> "text", what |-> "ANALISIS DE RESILIENCIA", node |-> node,
   before |-> before, after |-> after,
   comp_change |-> after.componentes - before.componentes,
   edge_change |-> before.aristas - after.aristas]

----------------------------------------------------------------------------
\* Example data, cut to two of the nine persons and the collaboration
\* between them: Ana (rank 1) and Sofia (rank 3), added in that order, and
\* the pair ("Sofia", "Ana").

SeedExample ==
  << [nombre |-> 1, carrera |-> "Ing.", intereses |-> {1}],
     [nombre |-> 3, carrera |-> "Int.", intereses |-> {1, 2}] >>

SeedPairs == << <<3, 1>> >>

\* seed_example_data(), on the empty dict and the empty list of the module
RECURSIVE SeedNodes(_, _)
SeedNodes(d, ex) ==
  IF ex = <<>> THEN d
  ELSE SeedNodes(DictSet(d, ex[1].nombre, ex[1].carrera, ex[1].intereses), Tail(ex))

SeedCollaborations ==
  [i \in DOMAIN SeedPairs |-> normalize_pair(SeedPairs[i][1], SeedPairs[i][2])]

----------------------------------------------------------------------------
\* Basic actions

add_or_update_node(nombre, carrera, intereses_text) ==
  LET intereses == parse_interests(intereses_text)
  IN IF nombre = 0 \/ carrera = ""
       THEN /\ shown' = Box("Campos obligatorios")
            /\ UNCHANGED <<nodes, collaborations, removed_nodes>>
       ELSE /\ nodes' = DictSet(nodes, nombre, carrera, intereses)
            /\ removed_nodes' = removed_nodes \ {nombre}
            /\ shown' = Box("Exito")
            /\ UNCHANGED <<collaborations>>

add_collaboration_unchecked(n1, n2) ==
  LET pair == normalize_pair(n1, n2)
  IN IF n1 = 0 \/ n2 = 0
       THEN /\ shown' = Box("Campos obligatorios")
            /\ UNCHANGED <<nodes, collaborations, removed_nodes>>
     ELSE IF n1 = n2
       THEN /\ shown' = Box("Validacion")
            /\ UNCHANGED <<nodes, collaborations, removed_nodes>>
     ELSE IF n1 \notin Keys(nodes) \/ n2 \notin Keys(nodes)
       THEN /\ shown' = Box("Validacion")
            /\ UNCHANGED <<nodes, collaborations, removed_nodes>>
     ELSE /\ collaborations' = Append(collaborations, pair)
          /\ shown' = Box("Agregado")
          /\ UNCHANGED <<nodes, removed_nodes>>

add_collaboration(n1, n2) ==
  LET pair == normalize_pair(n1, n2)
  IN IF n1 = 0 \/ n2 = 0
       THEN /\ shown' = Box("Campos obligatorios")
            /\ UNCHANGED <<nodes, collaborations, removed_nodes>>
     ELSE IF n1 = n2
       THEN /\ shown' = Box("Validacion")
            /\ UNCHANGED <<nodes, collaborations, removed_nodes>>
     ELSE IF n1 \notin Keys(nodes) \/ n2 \notin Keys(nodes)
       THEN /\ shown' = Box("Validacion")
            /\ UNCHANGED <<nodes, collaborations, removed_nodes>>
     ELSE IF pair \in Range(collaborations)
       THEN /\ shown' = Box("Duplicado")
            /\ UNCHANGED <<nodes, collaborations, removed_nodes>>
     ELSE /\ collaborations' = Append(collaborations, pair)
          /\ shown' = Box("Agregado")
          /\ UNCHANGED <<nodes, removed_nodes>>

delete_collaboration_as_typed(n1, n2) ==
  LET pair == <<n1, n2>>
  IN IF n1 = 0 \/ n2 = 0
       THEN /\ shown' = Box("Campos obligatorios")
            /\ UNCHANGED <<nodes, collaborations, removed_nodes>>
     ELSE IF pair \notin Range(collaborations)
       THEN /\ shown' = Box("Sin cambios")
            /\ UNCHANGED <<nodes, collaborations, removed_nodes>>
     ELSE /\ collaborations' = ListRemove(collaborations, pair)
          /\ shown' = Box("Eliminado")
          /\ UNCHANGED <<nodes, removed_nodes>>

delete_collaboration(n1, n2) ==
  LET pair == normalize_pair(n1, n2)
  IN IF n1 = 0 \/ n2 = 0
       THEN /\ shown' = Box("Campos obligatorios")
            /\ UNCHANGED <<nodes, collaborations, removed_nodes>>
     ELSE IF pair \notin Range(collaborations)
       THEN /\ shown' = Box("Sin cambios")
            /\ UNCHANGED <<nodes, collaborations, removed_nodes>>
     ELSE /\ collaborations' = ListRemove(collaborations, pair)
          /\ shown' = Box("Eliminado")
          /\ UNCHANGED <<nodes, removed_nodes>>

----------------------------------------------------------------------------
\* Advanced actions

reset_normal_mode ==
  /\ removed_nodes' = {}
  /\ UNCHANGED <<nodes, collaborations, shown>>

show_interdisciplinary_recommendations_resetting ==
  LET recommendations == recommend_interdisciplinary_connections(TopShown)
  IN IF recommendations = <<>>
       THEN /\ shown' = Box("Recomendaciones")
            /\ UNCHANGED <<nodes, collaborations, removed_nodes>>
       ELSE /\ shown' = Text("RECOMENDACIONES INTERDISCIPLINARIAS", 0)
            /\ removed_nodes' = {}
            /\ UNCHANGED <<nodes, collaborations>>

show_interdisciplinary_recommendations ==
  LET recommendations == recommend_interdisciplinary_connections(TopShown)
  IN IF recommendations = <<>>
       THEN /\ shown' = Box("Recomendaciones")
            /\ UNCHANGED <<nodes, collaborations, removed_nodes>>
       ELSE /\ shown' = Text("RECOMENDACIONES INTERDISCIPLINARIAS", 0)
            /\ UNCHANGED <<nodes, collaborations, removed_nodes>>

apply_connection_unchecked(conn) ==
  IF conn = <<>>
    THEN /\ shown' = Box("Campo vacio")
         /\ UNCHANGED <<nodes, collaborations, removed_nodes>>
  ELSE IF Len(conn) # 2
    THEN /\ shown' = Box("Formato invalido")
         /\ UNCHANGED <<nodes, collaborations, removed_nodes>>
  ELSE IF normalize_pair(conn[1], conn[2]) \in Range(collaborations)
    THEN /\ shown' = Box("Ya existe")
         /\ UNCHANGED <<nodes, collaborations, removed_nodes>>
  ELSE /\ collaborations' = Append(collaborations, normalize_pair(conn[1], conn[2]))
       /\ shown' = Box("Exito")
       /\ UNCHANGED <<nodes, removed_nodes>>

\* conn is the text of the entry, cut at its commas; <<>> is the empty text.
apply_connection(conn) ==
  IF conn = <<>>
    THEN /\ shown' = Box("Campo vacio")
         /\ UNCHANGED <<nodes, collaborations, removed_nodes>>
  ELSE IF Len(conn) # 2
    THEN /\ shown' = Box("Formato invalido")
         /\ UNCHANGED <<nodes, collaborations, removed_nodes>>
  ELSE IF conn[1] \notin Keys(nodes) \/ conn[2] \notin Keys(nodes)
    THEN /\ shown' = Box("Nodos no existen")
         /\ UNCHANGED <<nodes, collaborations, removed_nodes>>
  ELSE IF normalize_pair(conn[1], conn[2]) \in Range(collaborations)
    THEN /\ shown' = Box("Ya existe")
         /\ UNCHANGED <<nodes, collaborations, removed_nodes>>
  ELSE /\ collaborations' = Append(collaborations, normalize_pair(conn[1], conn[2]))
       /\ shown' = Box("Exito")
       /\ UNCHANGED <<nodes, removed_nodes>>

\* "Cerrar" of the recommendations window: window.destroy(), reset_normal_mode()
close_recommendations == reset_normal_mode

\* Opens the resilience window, whose buttons run the next two handlers.
show_resilience_analysis == UNCHANGED program

run_simulation_again(node_name) ==
  IF node_name = 0
    THEN /\ shown' = Text("Por favor seleccione un nodo", 0)
         /\ UNCHANGED <<nodes, collaborations, removed_nodes>>
  ELSE IF node_name \notin Keys(nodes)
    THEN /\ shown' = Text("no esta disponible", node_name)
         /\ UNCHANGED <<nodes, collaborations, removed_nodes>>
  ELSE LET G_before == BuildGraph(nodes, collaborations, removed_nodes)
           metrics_before == calculate_network_metrics(G_before)
           removed_after == removed_nodes \cup {node_name}
           G_after == BuildGraph(nodes, collaborations, removed_after)
           metrics_after == calculate_network_metrics(G_after)
       IN /\ removed_nodes' = removed_after
          /\ shown' = Report(node_name, metrics_before, metrics_after)
          /\ UNCHANGED <<nodes, collaborations>>

run_simulation(node_name) ==
  IF node_name = 0
    THEN /\ shown' = Text("Por favor seleccione un nodo", 0)
         /\ UNCHANGED <<nodes, collaborations, removed_nodes>>
  ELSE IF node_name \notin Keys(nodes) \/ node_name \in removed_nodes
    THEN /\ shown' = Text("no esta disponible", node_name)
         /\ UNCHANGED <<nodes, collaborations, removed_nodes>>
  ELSE LET G_before == BuildGraph(nodes, collaborations, removed_nodes)
           metrics_before == calculate_network_metrics(G_before)
           removed_after == removed_nodes \cup {node_name}
           G_after == BuildGraph(nodes, collaborations, removed_after)
           metrics_after == calculate_network_metrics(G_after)
       IN /\ removed_nodes' = removed_after
          /\ shown' = Report(node_name, metrics_before, metrics_after)
          /\ UNCHANGED <<nodes, collaborations>>

restore_node_all(node_name) ==
  IF node_name \in removed_nodes
    THEN /\ removed_nodes' = {}
         /\ shown' = Text("restaurado", node_name)
         /\ UNCHANGED <<nodes, collaborations>>
    ELSE UNCHANGED program

restore_node(node_name) ==
  IF node_name \in removed_nodes
    THEN /\ removed_nodes' = removed_nodes \ {node_name}
         /\ shown' = Text("restaurado", node_name)
         /\ UNCHANGED <<nodes, collaborations>>
    ELSE UNCHANGED program

\* "Cerrar y Restaurar Todo": removed_nodes.clear(), window.destroy(),
\* reset_normal_mode()
close_resilience ==
  /\ removed_nodes' = {}
  /\ UNCHANGED <<nodes, collaborations, shown>>

show_gap_analysis ==
  /\ shown' = Text("LIDERES EN LA RED", 0)
  /\ UNCHANGED <<nodes, collaborations, removed_nodes>>

\* "Cerrar" of the gap window: window.destroy(), reset_normal_mode()
close_gap_analysis == reset_normal_mode

----------------------------------------------------------------------------
\* The program: the module body has run, the user is at the buttons.

NoScript ==
  [name |-> "none", step |-> 0, a |-> 0, b |-> 0, orders |-> <<>>,
   form |-> <<>>, before |-> <<>>, saved |-> <<>>]

Init ==
  /\ nodes = SeedNodes(<<>>, SeedExample)
  /\ collaborations = <<>> \o SeedCollaborations
  /\ removed_nodes = {}
  /\ shown = Box("")
  /\ script = NoScript

\* The user acts freely while no script runs.
Free == script.name = "none" /\ UNCHANGED script

AddOrUpdateNode ==
  /\ Free
  /\ \E nombre \in NameInputs, form \in NodeForms :
       add_or_update_node(nombre, form[1], form[2])

AddCollaboration ==
  /\ Free
  /\ Len(collaborations) < MaxCollabs
  /\ \E n1, n2 \in NameInputs : add_collaboration(n1, n2)

DeleteCollaboration ==
  /\ Free
  /\ \E n1, n2 \in NameInputs : delete_collaboration(n1, n2)

ShowInterdisciplinaryRecommendations ==
  Free /\ show_interdisciplinary_recommendations

ApplyConnection ==
  /\ Free
  /\ Len(collaborations) < MaxCollabs
  /\ \E conn \in ConnTexts : apply_connection(conn)

CloseRecommendations == Free /\ close_recommendations

ShowResilienceAnalysis == Free /\ show_resilience_analysis

RunSimulation ==
  /\ Free
  /\ \E node_name \in NameInputs : run_simulation(node_name)

RestoreNode ==
  /\ Free
  /\ \E node_name \in NameInputs : restore_node(node_name)

CloseResilience == Free /\ close_resilience

ShowGapAnalysis == Free /\ show_gap_analysis

CloseGapAnalysis == Free /\ close_gap_analysis

ResetNormalMode == Free /\ reset_normal_mode

Next ==
  \/ AddOrUpdateNode
  \/ AddCollaboration
  \/ DeleteCollaboration
  \/ ShowInterdisciplinaryRecommendations
  \/ ApplyConnection
  \/ CloseRecommendations
  \/ ShowResilienceAnalysis
  \/ RunSimulation
  \/ RestoreNode
  \/ CloseResilience
  \/ ShowGapAnalysis
  \/ CloseGapAnalysis
  \/ ResetNormalMode

Spec == Init /\ [][Next]_vars

----------------------------------------------------------------------------
\* Notions of the specification, stated apart from the code's functions

Persons == Keys(nodes)

CanonicalPair(a, b) == <<IF a < b THEN a ELSE b, IF a < b THEN b ELSE a>>

Stored(a, b) == \E i \in DOMAIN collaborations : collaborations[i] = CanonicalPair(a, b)

Occurrences(a, b) ==
  Cardinality({i \in DOMAIN collaborations : collaborations[i] = CanonicalPair(a, b)})

\* The active subgraph of a store: the persons that are not removed and the
\* stored collaborations between them.
ActiveNodesOf(nd, rm) == Keys(nd) \ rm

ActiveIndexesOf(cl, rm) == {i \in DOMAIN cl : cl[i][1] \notin rm /\ cl[i][2] \notin rm}

Linked(cl, rm, u, v) ==
  \E i \in ActiveIndexesOf(cl, rm) : cl[i] = <<u, v>> \/ cl[i] = <<v, u>>

Compose(R) == {<<p[1], q[2]>> : <<p, q>> \in {pq \in R \X R : pq[1][2] = pq[2][1]}}

\* Connected by a path: three compositions cover paths of up to 8 edges.
ConnectedOf(nd, cl, rm) ==
  LET V == ActiveNodesOf(nd, rm)
      R0 == {p \in V \X V : p[1] = p[2] \/ Linked(cl, rm, p[1], p[2])}
  IN Compose(Compose(Compose(R0)))

MetricsOf(nd, cl, rm) ==
  LET V == ActiveNodesOf(nd, rm)
      R == ConnectedOf(nd, cl, rm)
  IN [nodos |-> Cardinality(V),
      aristas |-> Cardinality(ActiveIndexesOf(cl, rm)),
      componentes |-> Cardinality({{v \in V : <<u, v>> \in R} : u \in V})]

----------------------------------------------------------------------------
\* Scripts: fixed sequences of calls, begun in any state the free user
\* reaches. A script records what it called with and what it saw before.

Orientations(a, b) == {<<a, b>>, <<b, a>>}

\* add, delete, add of one pair of persons, in either argument order each time
RoundTripAdd ==
  /\ script.name = "none"
  /\ Len(collaborations) < MaxCollabs
  /\ \E a, b \in Persons :
       /\ a < b
       /\ ~Stored(a, b)
       /\ \E o \in Orientations(a, b) :
            /\ add_collaboration(o[1], o[2])
            /\ script' = [NoScript EXCEPT !.name = "roundtrip", !.step = 1,
                            !.a = a, !.b = b, !.orders = <<o>>]

RoundTripDelete ==
  /\ script.name = "roundtrip"
  /\ script.step = 1
  /\ \E o \in Orientations(script.a, script.b) :
       /\ delete_collaboration(o[1], o[2])
       /\ script' = [script EXCEPT !.step = 2, !.orders = Append(@, o)]

RoundTripAddAgain ==
  /\ script.name = "roundtrip"
  /\ script.step = 2
  /\ \E o \in Orientations(script.a, script.b) :
       /\ add_collaboration(o[1], o[2])
       /\ script' = [script EXCEPT !.step = 3, !.orders = Append(@, o)]

\* delete of a pair that is not stored
DeleteAbsent ==
  /\ script.name = "none"
  /\ \E a, b \in Names :
       /\ ~Stored(a, b)
       /\ delete_collaboration(a, b)
       /\ script' = [NoScript EXCEPT !.name = "delete_absent", !.step = 1,
                       !.a = a, !.b = b, !.before = store]

\* simulate the removal of a person, then restore that person
RemovalSimulate ==
  /\ script.name = "none"
  /\ \E x \in Persons \ removed_nodes :
       /\ run_simulation(x)
       /\ script' = [NoScript EXCEPT !.name = "removal", !.step = 1, !.a = x,
                       !.before = store]

RemovalRestore ==
  /\ script.name = "removal"
  /\ script.step = 1
  /\ restore_node(script.a)
  /\ script' = [script EXCEPT !.step = 2]

\* the same valid node form submitted twice
UpsertOnce ==
  /\ script.name = "none"
  /\ \E nombre \in Names, form \in NodeForms :
       /\ form[1] # ""
       /\ add_or_update_node(nombre, form[1], form[2])
       /\ script' = [NoScript EXCEPT !.name = "upsert", !.step = 1, !.a = nombre,
                       !.form = form, !.before = store, !.saved = store']

UpsertTwice ==
  /\ script.name = "upsert"
  /\ script.step = 1
  /\ add_or_update_node(script.a, script.form[1], script.form[2])
  /\ script' = [script EXCEPT !.step = 2]

NextScript ==
  \/ Next
  \/ RoundTripAdd
  \/ RoundTripDelete
  \/ RoundTripAddAgain
  \/ DeleteAbsent
  \/ RemovalSimulate
  \/ RemovalRestore
  \/ UpsertOnce
  \/ UpsertTwice

SpecScript == Init /\ [][NextScript]_vars

----------------------------------------------------------------------------
\* A user who adds persons and collaborations and simulates removals, among
\* PathNames names and up to PathCollabs collaborations.

PathNames == 4
PathCollabs == 3

PathAddNode ==
  /\ Free
  /\ \E nombre \in 1..PathNames : add_or_update_node(nombre, "Ing.", <<1>>)

PathAddCollaboration ==
  /\ Free
  /\ Len(collaborations) < PathCollabs
  /\ \E n1, n2 \in 1..PathNames : add_collaboration(n1, n2)

PathDeleteCollaboration ==
  /\ Free
  /\ \E n1, n2 \in 1..PathNames : delete_collaboration(n1, n2)

PathRunSimulation ==
  /\ Free
  /\ \E node_name \in 0..PathNames : run_simulation(node_name)

PathRestoreNode ==
  /\ Free
  /\ \E node_name \in 1..PathNames : restore_node(node_name)

NextPath ==
  \/ PathAddNode
  \/ PathAddCollaboration
  \/ PathDeleteCollaboration
  \/ PathRunSimulation
  \/ PathRestoreNode

SpecPath == Init /\ [][NextPath]_vars

----------------------------------------------------------------------------
\* C1: every pair that topInterdisciplinary(n) returns, for every n >= 0, has
\* both persons outside the removal set and is not a stored collaboration.
C1_RecommendationsAreActive ==
  \A n \in 0..TopShown :
    LET r == recommend_interdisciplinary_connections(n)
    IN \A k \in DOMAIN r :
         /\ r[k].n1 \notin removed_nodes
         /\ r[k].n2 \notin removed_nodes
         /\ ~Stored(r[k].n1, r[k].n2)

\* C2: no stored collaboration has its two endpoints equal.
C2_NoSelfLoop ==
  \A i \in DOMAIN collaborations : collaborations[i][1] # collaborations[i][2]

\* C3: every stored collaboration (a, b) has a <= b, and no pair is stored
\* twice.
C3_CanonicalAndUnique ==
  /\ \A i \in DOMAIN collaborations : collaborations[i][1] <= collaborations[i][2]
  /\ \A i, j \in DOMAIN collaborations : collaborations[i] = collaborations[j] => i = j

\* A second collaboration was added from the main form, next to the one of
\* the example data, which was given as ("Sofia", "Ana").
C3_Witness ==
  /\ shown = Box("Agregado")
  /\ Len(collaborations) = MaxCollabs
  /\ collaborations[1] = <<1, 3>>

\* C4: addCollaboration(a, b) is rejected when a = b, when a or b is no
\* person, or when the canonical pair is stored, and a rejection leaves the
\* persons, the collaborations and the removal set as they were; otherwise
\* it appends exactly the canonical pair.
C4_Rejected(a, b) ==
  a = b \/ a \notin Persons \/ b \notin Persons \/ Stored(a, b)

\* The messageboxes that add_collaboration ends with.
C4_Boxes ==
  {Box("Campos obligatorios"), Box("Validacion"), Box("Duplicado"), Box("Agregado")}

C4_AddCollaboration ==
  [][shown' \in C4_Boxes =>
       \A a, b \in NameInputs :
         add_collaboration(a, b) =>
           IF C4_Rejected(a, b)
             THEN /\ UNCHANGED store
                  /\ shown' # Box("Agregado")
             ELSE /\ collaborations' = Append(collaborations, CanonicalPair(a, b))
                  /\ UNCHANGED <<nodes, removed_nodes>>
                  /\ shown' = Box("Agregado")]_vars

\* A stored pair was offered again and refused.
C4_Witness ==
  /\ shown = Box("Duplicado")
  /\ collaborations # <<>>

\* C6: simulateRemoval(x) is rejected when x is no person or is already
\* removed, and the rejection changes nothing of the store.
C6_SimulationRejected ==
  [][\A x \in NameInputs :
       (x \notin Persons \/ x \in removed_nodes) =>
         \/ /\ UNCHANGED store
            /\ shown' \in {Text("Por favor seleccione un nodo", 0),
                           Text("no esta disponible", x)}
         \/ ~run_simulation(x)]_vars

\* The removal of an already removed person was asked for and refused.
C6_Witness ==
  \E x \in removed_nodes : shown = Text("no esta disponible", x)

\* C10: the recommendation and the gap queries leave the persons, the
\* collaborations and the removal set unchanged.
C10_QueriesReadOnly ==
  [][\/ UNCHANGED store
     \/ ~(show_interdisciplinary_recommendations \/ show_gap_analysis)]_vars

\* The recommendations were shown while a person was removed.
C10_Witness ==
  /\ shown = Text("RECOMENDACIONES INTERDISCIPLINARIAS", 0)
  /\ removed_nodes # {}

\* C5: for two distinct persons with no collaboration between them, add,
\* remove, add succeeds at each step, in either argument order each time,
\* and ends with the pair stored exactly once; removing a pair that is not
\* stored is refused and changes nothing.
C5_RoundTrip ==
  /\ script.name = "roundtrip" =>
       /\ script.step \in {1, 3} =>
            shown = Box("Agregado") /\ Occurrences(script.a, script.b) = 1
       /\ script.step = 2 =>
            shown = Box("Eliminado") /\ Occurrences(script.a, script.b) = 0
  /\ script.name = "delete_absent" =>
       store = script.before /\ shown = Box("Sin cambios")

\* The three calls were made as (b, a), (a, b), (b, a).
C5_Witness ==
  /\ script.name = "roundtrip"
  /\ script.step = 3
  /\ script.orders = << <<script.b, script.a>>, <<script.a, script.b>>,
                        <<script.b, script.a>> >>

\* C7: a successful simulateRemoval(x) changes the removal set alone; while
\* x is removed no collaboration of x is in the active subgraph; after
\* restore(x) the active subgraph is the one before simulateRemoval(x).
C7_RemovalRoundTrip ==
  script.name = "removal" =>
    LET x == script.a
        G == BuildGraph(nodes, collaborations, removed_nodes)
        G_before == BuildGraph(script.before[1], script.before[2], script.before[3])
    IN /\ nodes = script.before[1]
       /\ collaborations = script.before[2]
       /\ script.step = 1 =>
            /\ removed_nodes = script.before[3] \cup {x}
            /\ x \notin G.nodes
            /\ \A e \in G.edges : x \notin e
       /\ script.step = 2 =>
            /\ removed_nodes = script.before[3]
            /\ G = G_before

\* A person with a collaboration was removed and restored while another
\* person stayed removed.
C7_Witness ==
  /\ script.name = "removal"
  /\ script.step = 2
  /\ \E i \in DOMAIN collaborations : script.a \in {collaborations[i][1], collaborations[i][2]}
  /\ removed_nodes # {}

\* C9: upsertPerson twice with the same arguments leaves the state of
\* upsertPerson once; there the person has the given carrera and interests
\* and is not removed, and the collaborations and the other persons are as
\* before.
C9_Pieces(t) == {i \in 1..2 : \E k \in DOMAIN t : t[k] = i}

C9_UpsertIdempotent ==
  script.name = "upsert" =>
    LET n == script.a
        before == script.before
    IN /\ \E k \in DOMAIN nodes :
            /\ nodes[k].nombre = n
            /\ nodes[k].carrera = script.form[1]
            /\ nodes[k].intereses = C9_Pieces(script.form[2])
            /\ \A m \in DOMAIN nodes : nodes[m].nombre = n => m = k
       /\ n \notin removed_nodes
       /\ removed_nodes \ {n} = before[3] \ {n}
       /\ collaborations = before[2]
       /\ \A k \in DOMAIN before[1] :
            before[1][k].nombre # n => nodes[k] = before[1][k]
       /\ Len(nodes) = Len(before[1]) + (IF n \in Keys(before[1]) THEN 0 ELSE 1)
       /\ script.step = 2 => store = script.saved

\* A removed person was submitted twice with a new carrera.
C9_Witness ==
  /\ script.name = "upsert"
  /\ script.step = 2
  /\ script.a \in script.before[3]
  /\ \E k \in DOMAIN script.before[1] :
       /\ script.before[1][k].nombre = script.a
       /\ script.before[1][k].carrera # script.form[1]

\* C8: a successful simulateRemoval(x) reports the node, edge and component
\* counts of the active subgraph just before and just after x joins the
\* removal set, componentDelta = after.components - before.components and
\* edgeDelta = before.edges - after.edges; on the path A-B-C-D with nothing
\* removed, simulateRemoval(B) reports {4, 3, 1}, {3, 1, 2}, 1 and 2.
\* The path here is 2-1-3-4: B is the person 1.
C8_IsPath ==
  /\ Persons = {1, 2, 3, 4}
  /\ removed_nodes = {}
  /\ Len(collaborations) = 3
  /\ Range(collaborations) = {<<1, 2>>, <<1, 3>>, <<3, 4>>}

C8_Reported(x) ==
  /\ removed_nodes' = removed_nodes \cup {x}
  /\ shown'.widget = "text"
  /\ shown'.what = "ANALISIS DE RESILIENCIA"
  /\ shown'.node = x
  /\ shown'.before = MetricsOf(nodes, collaborations, removed_nodes)
  /\ shown'.after = MetricsOf(nodes', collaborations', removed_nodes')
  /\ shown'.comp_change = shown'.after.componentes - shown'.before.componentes
  /\ shown'.edge_change = shown'.before.aristas - shown'.after.aristas
  /\ (C8_IsPath /\ x = 1) =>
       /\ shown'.before = [nodos |-> 4, aristas |-> 3, componentes |-> 1]
       /\ shown'.after = [nodos |-> 3, aristas |-> 1, componentes |-> 2]
       /\ shown'.comp_change = 1
       /\ shown'.edge_change = 2

C8_SimulationMetrics ==
  [][\A x \in 1..PathNames :
       (x \in Persons /\ x \notin removed_nodes) =>
          (C8_Reported(x) \/ ~run_simulation(x))]_vars

\* B was removed from the path 2-1-3-4 and the report is on show.
C8_Witness ==
  /\ Persons = {1, 2, 3, 4}
  /\ removed_nodes = {1}
  /\ Range(collaborations) = {<<1, 2>>, <<1, 3>>, <<3, 4>>}
  /\ shown.what = "ANALISIS DE RESILIENCIA"
  /\ shown.node = 1
  /\ shown.before = [nodos |-> 4, aristas |-> 3, componentes |-> 1]
  /\ shown.after = [nodos |-> 3, aristas |-> 1, componentes |-> 2]
  /\ shown.comp_change = 1
  /\ shown.edge_change = 2

----------------------------------------------------------------------------
\* C11: every pair that topGapFilling(n) returns is of two distinct persons
\* that are both outside the removal set, are not a stored collaboration and
\* share at least one interest; a pair without a common interest is never
\* returned.
C11_GapPairsAreCandidates ==
  \A n \in 0..TopShown :
    LET r == suggest_gap_filling_connections(n)
    IN \A k \in DOMAIN r :
         /\ r[k].n1 # r[k].n2
         /\ r[k].n1 \in Persons \ removed_nodes
         /\ r[k].n2 \in Persons \ removed_nodes
         /\ ~Stored(r[k].n1, r[k].n2)
         /\ Get(nodes, r[k].n1).intereses \cap Get(nodes, r[k].n2).intereses # {}

\* A suggestion is returned while an active pair that is not stored shares no
\* interest and another pair is stored.
C11_Witness ==
  /\ suggest_gap_filling_connections(TopShown) # <<>>
  /\ \E a, b \in Persons \ removed_nodes :
       /\ a < b
       /\ ~Stored(a, b)
       /\ Get(nodes, a).intereses \cap Get(nodes, b).intereses = {}
  /\ \E a, b \in Persons \ removed_nodes : a < b /\ Stored(a, b)

----------------------------------------------------------------------------
\* C12: for n >= 0 the lists of topInterdisciplinary(n) and topGapFilling(n)
\* have at most n entries, are in order of non-increasing score, hold the n
\* highest-scoring candidates, and keep candidates of equal score in the
\* order of their enumeration (outer loop over the persons in insertion
\* order, inner loop over the later persons).
C12_Pos(x) == CHOOSE i \in DOMAIN nodes : nodes[i].nombre = x

C12_Earlier(p, q) ==
  \/ C12_Pos(p.n1) < C12_Pos(q.n1)
  \/ C12_Pos(p.n1) = C12_Pos(q.n1) /\ C12_Pos(p.n2) < C12_Pos(q.n2)

C12_Before(p, q) ==
  \/ FracLess(q.score, p.score)
  \/ FracEq(p.score, q.score) /\ C12_Earlier(p, q)

C12_Min(a, b) == IF a <= b THEN a ELSE b

\* full lists every candidate once, best first.
C12_Ranked(candidates, full) ==
  /\ Len(full) = Cardinality(candidates)
  /\ {<<full[k].n1, full[k].n2>> : k \in DOMAIN full} = candidates
  /\ \A i, j \in DOMAIN full : i < j => C12_Before(full[i], full[j])

\* r is the first n entries of full, or all of it.
C12_Top(full, r, n) ==
  /\ Len(r) = C12_Min(n, Len(full))
  /\ \A k \in DOMAIN r : r[k] = full[k]

C12_InterdisciplinaryCandidates ==
  {p \in Persons \X Persons :
     /\ C12_Pos(p[1]) < C12_Pos(p[2])
     /\ ~Stored(p[1], p[2])
     /\ FracPos(calculate_interdisciplinary_score(p[1], p[2]))}

C12_GapCandidates ==
  {p \in (Persons \ removed_nodes) \X (Persons \ removed_nodes) :
     /\ C12_Pos(p[1]) < C12_Pos(p[2])
     /\ ~Stored(p[1], p[2])
     /\ Get(nodes, p[1]).intereses \cap Get(nodes, p[2]).intereses # {}}

C12_All == Len(nodes) * Len(nodes)

C12_TopNOrdered ==
  LET fi == recommend_interdisciplinary_connections(C12_All)
      fg == suggest_gap_filling_connections(C12_All)
  IN /\ C12_Ranked(C12_InterdisciplinaryCandidates, fi)
     /\ C12_Ranked(C12_GapCandidates, fg)
     /\ \A n \in 0..TopShown :
          /\ C12_Top(fi, recommend_interdisciplinary_connections(n), n)
          /\ C12_Top(fg, suggest_gap_filling_connections(n), n)

\* A list has a tie between two candidates and a candidate that the sort
\* moved ahead of one enumerated earlier.
C12_Sorted(full) ==
  /\ \E i, j \in DOMAIN full : i < j /\ FracEq(full[i].score, full[j].score)
  /\ \E i, j \in DOMAIN full : i < j /\ C12_Earlier(full[j], full[i])

C12_Witness ==
  /\ C12_Sorted(recommend_interdisciplinary_connections(C12_All))
  /\ C12_Sorted(suggest_gap_filling_connections(C12_All))

----------------------------------------------------------------------------
\* C13: the mapping of calculate_centrality_metrics is empty when the active
\* subgraph has no node or no edge, and otherwise its keys are exactly the
\* persons outside the removal set.
C13_CentralityKeys ==
  LET V == ActiveNodesOf(nodes, removed_nodes)
      E == ActiveIndexesOf(collaborations, removed_nodes)
  IN DOMAIN calculate_centrality_metrics = (IF V = {} \/ E = {} THEN {} ELSE V)

\* A person is removed and the others, with a collaboration, are the keys.
C13_Witness ==
  /\ removed_nodes # {}
  /\ ActiveIndexesOf(collaborations, removed_nodes) # {}
  /\ DOMAIN calculate_centrality_metrics = Persons \ removed_nodes
  /\ Cardinality(Persons \ removed_nodes) >= 2

----------------------------------------------------------------------------
\* C14: when the active subgraph has N > 1 nodes, every degree centrality
\* that calculate_centrality_metrics reports is deg(v) / (N - 1), with deg(v)
\* the number of active collaborations at v, and lies between 0 and 1.
C14_Deg(v) ==
  Cardinality({i \in ActiveIndexesOf(collaborations, removed_nodes) :
                 v = collaborations[i][1] \/ v = collaborations[i][2]})

C14_DegreeCentralityInRange ==
  LET centrality == calculate_centrality_metrics
      N == Cardinality(ActiveNodesOf(nodes, removed_nodes))
  IN N > 1 =>
       \A v \in DOMAIN centrality :
         /\ FracEq(centrality[v].grado, Frac(C14_Deg(v), N - 1))
         /\ 0 <= centrality[v].grado.n
         /\ centrality[v].grado.n <= centrality[v].grado.d
         /\ C14_Deg(v) <= N - 1

----------------------------------------------------------------------------
\* The user at the buttons, with the button last clicked and the name it was
\* given kept in script. "Aplicar Conexion" is not among these buttons:
\* apply_connection reads and writes nodes and collaborations only.

Clicked(button, name) == script' = [NoScript EXCEPT !.name = button, !.a = name]

ClickAddOrUpdateNode ==
  \E nombre \in NameInputs, form \in NodeForms :
    /\ add_or_update_node(nombre, form[1], form[2])
    /\ Clicked("add_or_update_node", nombre)

ClickAddCollaboration ==
  /\ Len(collaborations) < MaxCollabs
  /\ \E n1, n2 \in Names :
       /\ add_collaboration(n1, n2)
       /\ Clicked("add_collaboration", n1)

ClickDeleteCollaboration ==
  \E n1, n2 \in Names :
    /\ delete_collaboration(n1, n2)
    /\ Clicked("delete_collaboration", n1)

ClickRecommendations ==
  /\ show_interdisciplinary_recommendations
  /\ Clicked("show_interdisciplinary_recommendations", 0)

ClickCloseRecommendations ==
  /\ close_recommendations
  /\ Clicked("close_recommendations", 0)

ClickGapAnalysis ==
  /\ show_gap_analysis
  /\ Clicked("show_gap_analysis", 0)

ClickCloseGapAnalysis ==
  /\ close_gap_analysis
  /\ Clicked("close_gap_analysis", 0)

ClickResilienceAnalysis ==
  /\ show_resilience_analysis
  /\ Clicked("show_resilience_analysis", 0)

ClickRunSimulation ==
  \E node_name \in NameInputs :
    /\ run_simulation(node_name)
    /\ Clicked("run_simulation", node_name)

ClickRestoreNode ==
  \E node_name \in NameInputs :
    /\ restore_node(node_name)
    /\ Clicked("restore_node", node_name)

ClickCloseResilience ==
  /\ close_resilience
  /\ Clicked("close_resilience", 0)

ClickResetNormalMode ==
  /\ reset_normal_mode
  /\ Clicked("reset_normal_mode", 0)

NextClick ==
  \/ ClickAddOrUpdateNode
  \/ ClickAddCollaboration
  \/ ClickDeleteCollaboration
  \/ ClickRecommendations
  \/ ClickCloseRecommendations
  \/ ClickGapAnalysis
  \/ ClickCloseGapAnalysis
  \/ ClickResilienceAnalysis
  \/ ClickRunSimulation
  \/ ClickRestoreNode
  \/ ClickCloseResilience
  \/ ClickResetNormalMode

SpecClick == Init /\ [][NextClick]_vars

\* C15: once simulateRemoval(x) has succeeded, x leaves the removal set only
\* by restore(x), by resetAll or by upsertPerson on x; running or dismissing
\* the recommendation or gap-analysis queries, adding or deleting
\* collaborations, upserting other persons and simulating other removals
\* keep x removed.
C15_Restores(x) ==
  \/ script'.name = "restore_node" /\ script'.a = x
  \/ script'.name = "add_or_update_node" /\ script'.a = x
  \/ script'.name = "reset_normal_mode"
  \/ script'.name = "close_resilience"

C15_NoAutoRestore ==
  [][\A x \in removed_nodes : x \notin removed_nodes' => C15_Restores(x)]_vars

----------------------------------------------------------------------------
\* C16: in every reachable state every name of the removal set and both
\* endpoints of every stored collaboration are keys of the person set, and no
\* step takes a key out of the person set.
C16_Referenced(nd, cl, rm) ==
  /\ rm \subseteq Keys(nd)
  /\ \A i \in DOMAIN cl : cl[i][1] \in Keys(nd) /\ cl[i][2] \in Keys(nd)

C16_ReferentialIntegrity ==
  /\ [] C16_Referenced(nodes, collaborations, removed_nodes)
  /\ [][Keys(nodes) \subseteq Keys(nodes')]_vars

\* A person was added, a collaboration was added, and a person with a
\* collaboration is removed.
C16_Witness ==
  /\ Len(nodes) > Len(SeedExample)
  /\ Len(collaborations) > Len(SeedPairs)
  /\ \E i \in DOMAIN collaborations :
       collaborations[i][1] \in removed_nodes \/ collaborations[i][2] \in removed_nodes

====
